---- MODULE Spec2Model ----
(***************************************************************************)
(* A model of ShapeGridGUI (src/GUItest.py): region editing, grid          *)
(* generation (rasterizer + axis-priority planner + jump analysis) and     *)
(* the scan simulation that runs on a background thread.                   *)
(*                                                                         *)
(* Representation notes.                                                   *)
(*  - An index point is the tuple <<ix, iy>>.  Python's None is <<>>.      *)
(*  - A Euclidean index distance d = (dx*dx + dy*dy) ** 0.5 is kept as     *)
(*    its square d2 = dx*dx + dy*dy, which is exact.                       *)
(*  - Micrometre values are kept in hundredths of a micrometre, so         *)
(*    galvo_step_um = 0.2 is 20 and the default threshold 0.4 is 40.       *)
(*    jump_thresh_idx = jump_thresh_um / galvo_step_um is kept as the      *)
(*    numerator jump_thresh_um (in hundredths) over the fixed denominator  *)
(*    galvo_step_um; "dist_idx > jump_thresh_idx" is then                  *)
(*    d2 * galvo_step_um^2 > jump_thresh_um^2.                             *)
(*  - self.grid_points is a Python list object.  list.clear() empties the  *)
(*    object in place (every iterator over it sees it empty), while        *)
(*    "self.grid_points = path" binds a new object and leaves the old one  *)
(*    (always empty at that point, and never filled again) to whoever      *)
(*    still iterates it.  A run's iterator therefore only needs the flag   *)
(*    "cur": its list is the object self.grid_points is bound to.          *)
(*  - generate_grid is two steps, generate_grid_clear (up to the two       *)
(*    clear() calls) and generate_grid_plan (the rest): a simulation       *)
(*    thread can run between them and then sees the emptied list.  No      *)
(*    other handler runs in between (Tk runs one handler at a time).       *)
(*  - A thread record keeps, besides the locals of run(), the history      *)
(*    fields path (the list contents when its for loop began), written     *)
(*    and delays (its writes and the delay before each), and small.        *)
(*  - The view transform is the record view.  self.scale only takes the   *)
(*    values scale / 1.2^k, kept as the number k of zoom-out steps         *)
(*    (view.zoom); (x - pan_x) / self.scale is then the exact fraction     *)
(*    (x - pan_x) * 6^k / (scale * 5^k), which is never half-way between   *)
(*    two integers for k > 0, so Python's round() of the float quotient    *)
(*    is the rounding of the fraction.  The wheel is turned with the       *)
(*    pointer on the ROI origin (pixel (pan_x, pan_y)), where zoom leaves  *)
(*    the pan offsets as they are.                                         *)
(*  - A mouse drag (start_pan, do_pan, end_pan) is one step, pan.          *)
(*  - redraw and export_csv write none of the state modelled here and are  *)
(*    left out.                                                            *)
(***************************************************************************)
EXTENDS Integers, Sequences, FiniteSets, TLC

(***************************************************************************)
(* Bounds of the model.                                                    *)
(***************************************************************************)
\* extent of the ROI grid in the model (self.roi_size is 200 in the source)
roi_size == 5
\* most vertices a freehand polygon gets in the model
MaxVerts == 3
\* most simulation threads started in one behaviour of Spec
GuiRuns == 1
\* most simulation threads started in one behaviour of SpecScan
MaxRuns == 2
\* most zoom-out steps below the initial scale
MaxZoom == 1
\* largest pan offset, in pixels
MaxPan == 2

(***************************************************************************)
(* Program constants.                                                      *)
(***************************************************************************)
scale == 3
pan_x == 0
pan_y == 0
galvo_step_um == 20
DefaultThresh == 40
SigLow == 10
SigHigh == 100
NaN == 0 - 1
None == <<>>

\* texts the user may leave in jump_thresh_entry
ThreshTexts == {"0.4", "0.2", "0.1", "abc"}
\* the texts typed in Spec: the initial one and one that is not a number
GuiTexts == {"0.4", "abc"}
\* pixel positions of the mouse clicks the model delivers to add_vertex: the
\* first pixel of the canvas, one inside, and the last pixel of the canvas
\* (the canvas is roi_size * scale pixels wide and high)
Clicks == {<<0, 0>>, <<4, 3>>, <<roi_size * scale - 1, roi_size * scale - 1>>}
\* the values of np.random.randint(SigLow, SigHigh) the model draws from
SignalVals == {SigLow}
\* wheel directions (event.delta) the model delivers to zoom
WheelDeltas == {0 - 1, 1}
\* mouse drags <<dx, dy>>, in pixels, the model delivers to do_pan
Drags == {<<2, 0>>}


VARIABLES
  vertices,        \* self.vertices
  polygon_drawn,   \* self.polygon_drawn
  rect_mode,       \* self.rect_mode
  rect_start,      \* self.rect_start
  grid_points,     \* contents of the list self.grid_points is bound to
  big_jumps,       \* self.big_jumps
  thresh_entry,    \* text of self.jump_thresh_entry
  heatmap_data,    \* self.heatmap_data, indexed <<iy, ix>>
  gen_pc,          \* position of the main thread inside generate_grid
  runs,            \* the threads started by simulate_scan
  gen_thresh,      \* history: jump_thresh_um read by the last jump analysis
  gen_rejected,    \* history: the last UI event was a generate_grid request
                   \* that returned at "if not self.polygon_drawn"
  view             \* self.scale (as view.zoom), self.pan_x, self.pan_y

vars == <<vertices, polygon_drawn, rect_mode, rect_start, grid_points, big_jumps,
          thresh_entry, heatmap_data, gen_pc, runs, gen_thresh, gen_rejected, view>>

(***************************************************************************)
(* Pure helpers.                                                           *)
(***************************************************************************)
Abs(n) == IF n < 0 THEN 0 - n ELSE n

\* Python round(n / s) for integers n and s > 0 (ties go to the even integer)
RoundDiv(n, s) ==
  LET q == n \div s
      r == n % s
  IN IF 2 * r < s THEN q
     ELSE IF 2 * r > s THEN q + 1
     ELSE IF q % 2 = 0 THEN q ELSE q + 1

RECURSIVE Pow(_, _)
Pow(b, k) == IF k = 0 THEN 1 ELSE b * Pow(b, k - 1)

\* the view after __init__ and after reset_view
InitView == [zoom |-> 0, pan_x |-> pan_x, pan_y |-> pan_y]

\* int(round((x - self.pan_x) / self.scale)), ... with self.scale = scale / 1.2^zoom
px_to_idx(x, y) ==
  <<RoundDiv((x - view.pan_x) * Pow(6, view.zoom), scale * Pow(5, view.zoom)),
    RoundDiv((y - view.pan_y) * Pow(6, view.zoom), scale * Pow(5, view.zoom))>>

\* (variant: only the lower bounds are tested)
InsideRoiNoUpper(x, y) ==
  LET p == px_to_idx(x, y)
  IN 0 <= p[1] /\ 0 <= p[2]

inside_roi(x, y) ==
  LET p == px_to_idx(x, y)
  IN 0 <= p[1] /\ p[1] < roi_size /\ 0 <= p[2] /\ p[2] < roi_size

\* float(text): the value in hundredths of a micrometre, or NaN for ValueError
ParseFloat(text) ==
  CASE text = "0.4" -> 40
    [] text = "0.2" -> 20
    [] text = "0.1" -> 10
    [] OTHER -> NaN

\* try: float(entry.get()) except ValueError: 0.4
ReadThreshold(text) ==
  IF ParseFloat(text) = NaN THEN DefaultThresh ELSE ParseFloat(text)

\* (variant: the list is left as it was)
ClearedNot(list) == list

\* list.clear(): what the list object holds afterwards
Cleared(list) == <<>>

\* (variant: the second and fourth vertex exchanged)
RectVerticesTransposed(start, p) ==
  <<start, <<start[1], p[2]>>, p, <<p[1], start[2]>>>>

\* the vertex list add_vertex builds from the two corners of a rectangle
RectVertices(start, p) ==
  <<start, <<p[1], start[2]>>, p, <<start[1], p[2]>>>>

Dist2(a, b) ==
  LET dx == Abs(b[1] - a[1])
      dy == Abs(b[2] - a[2])
  IN dx * dx + dy * dy

\* (variant: dist_idx >= jump_thresh_idx)
ExceedsOrEqual(d2, thresh_um) ==
  thresh_um < 0 \/ d2 * galvo_step_um * galvo_step_um >= thresh_um * thresh_um

\* (variant: dist_idx < jump_thresh_idx)
ExceedsBelow(d2, thresh_um) ==
  d2 * galvo_step_um * galvo_step_um < thresh_um * thresh_um

\* dist_idx > jump_thresh_idx
Exceeds(d2, thresh_um) ==
  thresh_um < 0 \/ d2 * galvo_step_um * galvo_step_um > thresh_um * thresh_um

(***************************************************************************)
(* Rasterizer: Polygon(self.vertices), poly.bounds, poly.contains(p) and   *)
(* poly.buffer(1).contains(p), in exact integer arithmetic.                *)
(***************************************************************************)
SeqMin(s, i) == CHOOSE m \in {s[k][i] : k \in 1 .. Len(s)} :
                   \A k \in 1 .. Len(s) : m <= s[k][i]
SeqMax(s, i) == CHOOSE m \in {s[k][i] : k \in 1 .. Len(s)} :
                   \A k \in 1 .. Len(s) : m >= s[k][i]
Min2(a, b) == IF a < b THEN a ELSE b
Max2(a, b) == IF a > b THEN a ELSE b

\* the vertex after V[i] on the closed ring
NextV(V, i) == V[(i % Len(V)) + 1]

Cross(a, b, p) == (b[1] - a[1]) * (p[2] - a[2]) - (b[2] - a[2]) * (p[1] - a[1])
Dot(a, b, p) == (b[1] - a[1]) * (p[1] - a[1]) + (b[2] - a[2]) * (p[2] - a[2])

\* the distance from p to the closed segment ab is less than 1
NearSeg(p, a, b) ==
  LET L == Dist2(a, b)
      t == Dot(a, b, p)
  IN IF L = 0 \/ t <= 0 THEN Dist2(a, p) < 1
     ELSE IF t >= L THEN Dist2(b, p) < 1
     ELSE Cross(a, b, p) * Cross(a, b, p) < L

\* poly.buffer(1).contains(p) for a point outside the polygon: p lies
\* strictly within distance 1 of the boundary
NearBoundary(p, V) == \E i \in 1 .. Len(V) : NearSeg(p, V[i], NextV(V, i))

\* the ray from p towards +x crosses the edge ab (even-odd rule)
RayCrosses(p, a, b) ==
  /\ (a[2] > p[2]) # (b[2] > p[2])
  /\ IF b[2] > a[2]
       THEN (p[1] - a[1]) * (b[2] - a[2]) < (p[2] - a[2]) * (b[1] - a[1])
       ELSE (p[1] - a[1]) * (b[2] - a[2]) > (p[2] - a[2]) * (b[1] - a[1])

\* poly.contains(p) for a point off the boundary
InsidePoly(p, V) ==
  Cardinality({i \in 1 .. Len(V) : RayCrosses(p, V[i], NextV(V, i))}) % 2 = 1

\* (variant: only poly.contains(p))
CoveredStrict(p, V) == InsidePoly(p, V) /\ ~NearBoundary(p, V)

Covered(p, V) == InsidePoly(p, V) \/ NearBoundary(p, V)

\* twice the signed area of the ring
RECURSIVE Area2From(_, _)
Area2From(V, i) ==
  IF i > Len(V) THEN 0
  ELSE V[i][1] * NextV(V, i)[2] - NextV(V, i)[1] * V[i][2] + Area2From(V, i + 1)

OnSeg(p, a, b) == Cross(a, b, p) = 0 /\ Dot(a, b, p) >= 0 /\ Dot(b, a, p) >= 0
Sign(n) == IF n > 0 THEN 1 ELSE IF n < 0 THEN 0 - 1 ELSE 0
SegsMeet(a, b, c, d) ==
  \/ OnSeg(c, a, b) \/ OnSeg(d, a, b) \/ OnSeg(a, c, d) \/ OnSeg(b, c, d)
  \/ /\ Sign(Cross(a, b, c)) * Sign(Cross(a, b, d)) < 0
     /\ Sign(Cross(c, d, a)) * Sign(Cross(c, d, b)) < 0

\* the ring is a valid polygon: non-zero area, no edge touches a
\* non-adjacent edge, adjacent edges share only their common vertex
ValidPolygon(V) ==
  LET n == Len(V)
  IN /\ n >= 3
     /\ Area2From(V, 1) # 0
     /\ \A i \in 1 .. n : V[i] # NextV(V, i)
     /\ \A i \in 1 .. n : ~OnSeg(NextV(V, (i % n) + 1), V[i], NextV(V, i))
     /\ \A i \in 1 .. n : ~OnSeg(V[i], NextV(V, i), NextV(V, (i % n) + 1))
     /\ \A i, j \in 1 .. n :
          (i < j /\ j # i + 1 /\ ~(i = 1 /\ j = n))
             => ~SegsMeet(V[i], NextV(V, i), V[j], NextV(V, j))

\* the points of the clamped bounding box in the order of the two for loops
BBoxPoints(V) ==
  LET minx == Max2(SeqMin(V, 1), 0)
      miny == Max2(SeqMin(V, 2), 0)
      maxx == Min2(SeqMax(V, 1), roi_size - 1)
      maxy == Min2(SeqMax(V, 2), roi_size - 1)
      w == maxx - minx + 1
      h == maxy - miny + 1
  IN IF w <= 0 \/ h <= 0 THEN <<>>
     ELSE [k \in 1 .. w * h |-> <<minx + ((k - 1) % w), miny + ((k - 1) \div w)>>]

\* the candidates list at "if not candidates"
Candidates(V) ==
  LET IsCovered(p) == Covered(p, V)
  IN SelectSeq(BBoxPoints(V), IsCovered)

\* What the rasterizer can leave in candidates.  shapely gives no defined
\* result for an invalid polygon (zero area or self-touching): the model
\* admits the geometric answer and the empty list (which also stands for
\* an exception raised after the two clear() calls).
RasterOutcomes(V) ==
  IF ValidPolygon(V) THEN {Candidates(V)} ELSE {Candidates(V), <<>>}

(***************************************************************************)
(* PathPlanner: the axis-priority greedy loop of generate_grid.            *)
(***************************************************************************)
IsAxisNeighbor(curr, q) ==
  \/ (Abs(q[1] - curr[1]) = 1 /\ q[2] = curr[2])
  \/ (Abs(q[2] - curr[2]) = 1 /\ q[1] = curr[1])

\* (variant: the neighbours in the reverse of the pool's order)
AxisNeighborsReversed(curr, pool) ==
  LET Adjacent(q) == IsAxisNeighbor(curr, q)
      out == SelectSeq(pool, Adjacent)
  IN [k \in 1 .. Len(out) |-> out[Len(out) + 1 - k]]

axis_neighbors(curr, pool) ==
  LET Adjacent(q) == IsAxisNeighbor(curr, q)
  IN SelectSeq(pool, Adjacent)

\* (variant: the last element of the pool)
NearestInLast(pool, current) == pool[Len(pool)]

\* min(candidates, key = squared distance to current): the first minimum
NearestIn(pool, current) ==
  LET i == CHOOSE i \in 1 .. Len(pool) :
             /\ \A j \in 1 .. Len(pool) :
                   Dist2(current, pool[i]) <= Dist2(current, pool[j])
             /\ \A j \in 1 .. i - 1 :
                   Dist2(current, pool[j]) > Dist2(current, pool[i])
  IN pool[i]

\* (variant: drops the first element of the list)
ListRemoveHead(s, x) == Tail(s)

\* list.remove(x): drops the first element equal to x
ListRemove(s, x) ==
  LET i == CHOOSE i \in 1 .. Len(s) : s[i] = x /\ \A j \in 1 .. i - 1 : s[j] # x
  IN [k \in 1 .. Len(s) - 1 |-> IF k < i THEN s[k] ELSE s[k + 1]]

NextPoint(current, candidates) ==
  LET axn == axis_neighbors(current, candidates)
  IN IF axn # <<>> THEN axn[1] ELSE NearestIn(candidates, current)

\* the while loop: the path it leaves when candidates is exhausted
RECURSIVE PlanLoop(_, _, _)
PlanLoop(path, current, candidates) ==
  IF candidates = <<>> THEN path
  ELSE LET next_pt == NextPoint(current, candidates)
       IN PlanLoop(Append(path, next_pt), next_pt, ListRemove(candidates, next_pt))

\* path for a non-empty candidates list: current = candidates.pop(0), ...
PlanPath(candidates) ==
  PlanLoop(<<Head(candidates)>>, Head(candidates), Tail(candidates))

(***************************************************************************)
(* JumpAnalyzer: the loop over zip(grid_points, grid_points[1:]).          *)
(***************************************************************************)
\* the tuple (a, b, dist_idx, dist_um); both distances as squares
JumpRecord(a, b) ==
  <<a, b, Dist2(a, b), Dist2(a, b) * galvo_step_um * galvo_step_um>>

RECURSIVE JumpLoop(_, _, _, _)
JumpLoop(path, thresh_um, i, acc) ==
  IF i >= Len(path) THEN acc
  ELSE JumpLoop(path, thresh_um, i + 1,
                IF Exceeds(Dist2(path[i], path[i + 1]), thresh_um)
                  THEN Append(acc, JumpRecord(path[i], path[i + 1]))
                  ELSE acc)

\* self.big_jumps after the loop, which appends to what the list held
AnalyzeJumps(path, thresh_um, jumps) == JumpLoop(path, thresh_um, 1, jumps)

(***************************************************************************)
(* State machine.                                                          *)
(***************************************************************************)
\* a thread slot simulate_scan has not used yet
NoRun ==
  [pc |-> "none", cur |-> FALSE, idx |-> 1, prev |-> None, thresh |-> 0,
   path |-> <<>>, written |-> <<>>, delays |-> <<>>, small |-> FALSE]

Cells == (0 .. roi_size - 1) \X (0 .. roi_size - 1)

Init ==
  /\ vertices = <<>>
  /\ polygon_drawn = FALSE
  /\ rect_mode = FALSE
  /\ rect_start = None
  /\ grid_points = <<>>
  /\ big_jumps = <<>>
  /\ thresh_entry = "0.4"
  /\ heatmap_data = [c \in Cells |-> NaN]
  /\ gen_pc = "idle"
  /\ runs = [r \in 1 .. GuiRuns |-> NoRun]
  /\ gen_thresh = 0
  /\ gen_rejected = FALSE
  /\ view = InitView

\* Tk runs one handler at a time: no handler starts while generate_grid runs
UiIdle == gen_pc = "idle"

toggle_rectangle_mode ==
  /\ UiIdle
  /\ rect_mode' = ~rect_mode
  /\ rect_start' = None
  /\ IF ~rect_mode
       THEN vertices' = Cleared(vertices) /\ polygon_drawn' = FALSE
       ELSE UNCHANGED <<vertices, polygon_drawn>>
  /\ gen_rejected' = FALSE
  /\ UNCHANGED <<grid_points, big_jumps, thresh_entry, heatmap_data, gen_pc, runs,
                 gen_thresh>>
  /\ UNCHANGED view

add_vertex(x, y) ==
  /\ UiIdle
  /\ gen_rejected' = FALSE
  /\ IF polygon_drawn \/ ~inside_roi(x, y)
       THEN UNCHANGED <<vertices, polygon_drawn, rect_start>>
       ELSE LET p == px_to_idx(x, y)
            IN IF rect_mode
                 THEN IF rect_start = None
                        THEN /\ rect_start' = p
                             /\ UNCHANGED <<vertices, polygon_drawn>>
                        ELSE /\ vertices' = RectVertices(rect_start, p)
                             /\ polygon_drawn' = TRUE
                             /\ rect_start' = None
                 ELSE /\ Len(vertices) < MaxVerts
                      /\ vertices' = Append(vertices, p)
                      /\ UNCHANGED <<polygon_drawn, rect_start>>
  /\ UNCHANGED <<rect_mode, grid_points, big_jumps, thresh_entry, heatmap_data,
                 gen_pc, runs, gen_thresh>>
  /\ UNCHANGED view

\* (variant: the number of vertices is not tested)
ClosePolygonAny ==
  /\ UiIdle
  /\ gen_rejected' = FALSE
  /\ IF ~rect_mode
       THEN polygon_drawn' = TRUE
       ELSE UNCHANGED polygon_drawn
  /\ UNCHANGED <<vertices, rect_mode, rect_start, grid_points, big_jumps,
                 thresh_entry, heatmap_data, gen_pc, runs, gen_thresh, view>>

close_polygon ==
  /\ UiIdle
  /\ gen_rejected' = FALSE
  /\ IF Len(vertices) > 2 /\ ~rect_mode
       THEN polygon_drawn' = TRUE
       ELSE UNCHANGED polygon_drawn
  /\ UNCHANGED <<vertices, rect_mode, rect_start, grid_points, big_jumps,
                 thresh_entry, heatmap_data, gen_pc, runs, gen_thresh>>
  /\ UNCHANGED view

\* the user edits the text of jump_thresh_entry (no callback is bound to it)
edit_threshold(text) ==
  /\ UiIdle
  /\ text # thresh_entry
  /\ thresh_entry' = text
  /\ gen_rejected' = FALSE
  /\ UNCHANGED <<vertices, polygon_drawn, rect_mode, rect_start, grid_points,
                 big_jumps, heatmap_data, gen_pc, runs, gen_thresh>>
  /\ UNCHANGED view

\* (variant: the pending rectangle corner is kept)
RefreshKeepsCorner ==
  /\ UiIdle
  /\ vertices' = Cleared(vertices)
  /\ grid_points' = Cleared(grid_points)
  /\ big_jumps' = Cleared(big_jumps)
  /\ polygon_drawn' = FALSE
  /\ gen_rejected' = FALSE
  /\ UNCHANGED <<rect_start, rect_mode, thresh_entry, heatmap_data, gen_pc, runs,
                 gen_thresh, view>>

\* (variant: the reset also empties the heatmap)
RefreshResetsHeatmap ==
  /\ UiIdle
  /\ vertices' = Cleared(vertices)
  /\ grid_points' = Cleared(grid_points)
  /\ big_jumps' = Cleared(big_jumps)
  /\ polygon_drawn' = FALSE
  /\ rect_start' = None
  /\ gen_rejected' = FALSE
  /\ heatmap_data' = [c \in Cells |-> NaN]
  /\ UNCHANGED <<rect_mode, thresh_entry, gen_pc, runs, gen_thresh, view>>

refresh_canvas ==
  /\ UiIdle
  /\ vertices' = Cleared(vertices)
  /\ grid_points' = Cleared(grid_points)
  /\ big_jumps' = Cleared(big_jumps)
  /\ polygon_drawn' = FALSE
  /\ rect_start' = None
  /\ gen_rejected' = FALSE
  /\ UNCHANGED <<rect_mode, thresh_entry, heatmap_data, gen_pc, runs, gen_thresh>>
  /\ UNCHANGED view

\* generate_grid up to the two clear() calls
generate_grid_clear ==
  /\ UiIdle
  /\ IF ~polygon_drawn
       THEN /\ gen_rejected' = TRUE
            /\ UNCHANGED <<grid_points, big_jumps, gen_pc>>
       ELSE /\ grid_points' = Cleared(grid_points)
            /\ big_jumps' = Cleared(big_jumps)
            /\ gen_pc' = "plan"
            /\ gen_rejected' = FALSE
  /\ UNCHANGED <<vertices, polygon_drawn, rect_mode, rect_start, thresh_entry,
                 heatmap_data, runs, gen_thresh>>
  /\ UNCHANGED view

\* the iterators of the running threads stay on the list object that
\* self.grid_points was bound to before "self.grid_points = path"
Rebound(rs) == [r \in DOMAIN rs |-> [rs[r] EXCEPT !.cur = FALSE]]

\* generate_grid from "Build polygon + bounds" to its end
generate_grid_plan ==
  /\ gen_pc = "plan"
  /\ gen_pc' = "idle"
  /\ \E candidates \in RasterOutcomes(vertices) :
       IF candidates = <<>>
         THEN UNCHANGED <<grid_points, big_jumps, runs, gen_thresh>>
         ELSE /\ grid_points' = PlanPath(candidates)
              /\ runs' = Rebound(runs)
              /\ gen_thresh' = ReadThreshold(thresh_entry)
              /\ big_jumps' = AnalyzeJumps(grid_points', gen_thresh', big_jumps)
  /\ UNCHANGED <<vertices, polygon_drawn, rect_mode, rect_start, thresh_entry,
                 heatmap_data, gen_rejected>>
  /\ UNCHANGED view

\* the slot the next thread takes
FreeRun == CHOOSE r \in DOMAIN runs : runs[r].pc = "none" /\ \A q \in 1 .. r - 1 : runs[q].pc # "none"

\* simulate_scan: the handler, up to Thread(...).start()
simulate_scan ==
  /\ UiIdle
  /\ gen_rejected' = FALSE
  /\ IF grid_points = <<>>
       THEN UNCHANGED runs
       ELSE /\ \E r \in DOMAIN runs : runs[r].pc = "none"
            /\ runs' = [runs EXCEPT ![FreeRun] =
                          [NoRun EXCEPT !.pc = "start",
                                        !.thresh = ReadThreshold(thresh_entry),
                                        !.small = gen_rejected /\ Len(vertices) < 3]]
  /\ UNCHANGED <<vertices, polygon_drawn, rect_mode, rect_start, grid_points,
                 big_jumps, thresh_entry, heatmap_data, gen_pc, gen_thresh>>
  /\ UNCHANGED view

\* run(): "for pt in self.grid_points" creates the list iterator
run_begin(r) ==
  /\ runs[r].pc = "start"
  /\ runs' = [runs EXCEPT ![r] =
                [@ EXCEPT !.pc = "iter", !.cur = TRUE, !.idx = 1,
                          !.path = grid_points]]
  /\ UNCHANGED <<vertices, polygon_drawn, rect_mode, rect_start, grid_points,
                 big_jumps, thresh_entry, heatmap_data, gen_pc, gen_thresh,
                 gen_rejected>>
  /\ UNCHANGED view

\* (variant: the loop reads whatever self.grid_points is bound to now)
IterListLive(r) == grid_points

\* the list the iterator of thread r reads
IterList(r) == IF runs[r].cur THEN grid_points ELSE <<>>

\* (variant: the long delay already at dist_idx = jump_thresh_idx)
DelayForOrEqual(prev, pt, thresh_um) ==
  IF prev = None THEN "none"
  ELSE IF ExceedsOrEqual(Dist2(prev, pt), thresh_um) THEN "long" ELSE "short"

\* the delay before the write of pt
DelayFor(prev, pt, thresh_um) ==
  IF prev = None THEN "none"
  ELSE IF Exceeds(Dist2(prev, pt), thresh_um) THEN "long" ELSE "short"

\* update_heatmap(ix, iy, value)
update_heatmap(h, ix, iy, value) == [h EXCEPT ![<<iy, ix>>] = value]

\* (variant: a thread whose iterator is exhausted does not return)
RunStepHangs(r) ==
  /\ runs[r].pc = "iter"
  /\ runs[r].idx <= Len(IterList(r))
  /\ LET pt == IterList(r)[runs[r].idx]
     IN \E val \in SignalVals :
          /\ heatmap_data' = update_heatmap(heatmap_data, pt[1], pt[2], val)
          /\ runs' = [runs EXCEPT ![r] =
               [@ EXCEPT !.idx = @ + 1, !.prev = pt,
                         !.written = Append(@, pt),
                         !.delays = Append(@, DelayFor(runs[r].prev, pt,
                                                       runs[r].thresh))]]
  /\ UNCHANGED <<vertices, polygon_drawn, rect_mode, rect_start, grid_points,
                 big_jumps, thresh_entry, gen_pc, gen_thresh, gen_rejected, view>>

\* run(): one turn of the for loop (next item, delay, write), or its end,
\* where the locals of the thread and its history fields are dropped
run_step(r) ==
  /\ runs[r].pc = "iter"
  /\ IF runs[r].idx > Len(IterList(r))
       THEN /\ runs' = [runs EXCEPT ![r] = [NoRun EXCEPT !.pc = "done"]]
            /\ UNCHANGED heatmap_data
       ELSE LET pt == IterList(r)[runs[r].idx]
            IN \E val \in SignalVals :
                 /\ heatmap_data' = update_heatmap(heatmap_data, pt[1], pt[2], val)
                 /\ runs' = [runs EXCEPT ![r] =
                      [@ EXCEPT !.idx = @ + 1, !.prev = pt,
                                !.written = Append(@, pt),
                                !.delays = Append(@, DelayFor(runs[r].prev, pt,
                                                              runs[r].thresh))]]
  /\ UNCHANGED <<vertices, polygon_drawn, rect_mode, rect_start, grid_points,
                 big_jumps, thresh_entry, gen_pc, gen_thresh, gen_rejected>>
  /\ UNCHANGED view

\* zoom: one wheel step with the pointer on the ROI origin.  The clamp
\* max(1, min(self.scale, 100)) changes nothing for the scales of the model.
zoom(delta) ==
  /\ UiIdle
  /\ LET z == IF delta < 0 THEN view.zoom + 1
               ELSE IF delta > 0 THEN view.zoom - 1 ELSE view.zoom
     IN /\ z \in 0 .. MaxZoom
        /\ view' = [view EXCEPT !.zoom = z]
  /\ gen_rejected' = FALSE
  /\ UNCHANGED <<vertices, polygon_drawn, rect_mode, rect_start, grid_points,
                 big_jumps, thresh_entry, heatmap_data, gen_pc, runs, gen_thresh>>

\* start_pan, do_pan, end_pan: a drag of the mouse by <<dx, dy>> pixels
pan(dx, dy) ==
  /\ UiIdle
  /\ Abs(view.pan_x + dx) <= MaxPan
  /\ Abs(view.pan_y + dy) <= MaxPan
  /\ view' = [view EXCEPT !.pan_x = @ + dx, !.pan_y = @ + dy]
  /\ gen_rejected' = FALSE
  /\ UNCHANGED <<vertices, polygon_drawn, rect_mode, rect_start, grid_points,
                 big_jumps, thresh_entry, heatmap_data, gen_pc, runs, gen_thresh>>

reset_view ==
  /\ UiIdle
  /\ view' = InitView
  /\ gen_rejected' = FALSE
  /\ UNCHANGED <<vertices, polygon_drawn, rect_mode, rect_start, grid_points,
                 big_jumps, thresh_entry, heatmap_data, gen_pc, runs, gen_thresh>>

Next ==
  \/ toggle_rectangle_mode
  \/ \E c \in Clicks : add_vertex(c[1], c[2])
  \/ close_polygon
  \/ \E text \in GuiTexts : edit_threshold(text)
  \/ refresh_canvas
  \/ generate_grid_clear
  \/ generate_grid_plan
  \/ simulate_scan
  \/ \E delta \in WheelDeltas : zoom(delta)
  \/ \E d \in Drags : pan(d[1], d[2])
  \/ reset_view
  \/ \E r \in DOMAIN runs : run_begin(r)
  \/ \E r \in DOMAIN runs : run_step(r)

Spec == Init /\ [][Next]_vars

(***************************************************************************)
(* SpecScan: generation, reset and simulation on a region that has been    *)
(* drawn and closed, with MaxRuns threads.  The region-editing handlers    *)
(* (add_vertex, close_polygon, toggle_rectangle_mode) are left out: they   *)
(* touch only state the threads never read.                                *)
(***************************************************************************)
\* the drawn regions SpecScan starts from: <<vertices, rect_mode>>
ScanRegions ==
  { <<(<< <<0, 0>>, <<1, 0>>, <<1, 1>>, <<0, 1>> >>), TRUE>>,
    <<(<< <<0, 0>>, <<1, 0>>, <<2, 2>> >>), FALSE>> }

InitScan ==
  /\ \E reg \in ScanRegions : vertices = reg[1] /\ rect_mode = reg[2]
  /\ polygon_drawn = TRUE
  /\ rect_start = None
  /\ grid_points = <<>>
  /\ big_jumps = <<>>
  /\ thresh_entry = "0.4"
  /\ heatmap_data = [c \in Cells |-> NaN]
  /\ gen_pc = "idle"
  /\ runs = [r \in 1 .. MaxRuns |-> NoRun]
  /\ gen_thresh = 0
  /\ gen_rejected = FALSE
  /\ view = InitView

NextScan ==
  \/ \E text \in ThreshTexts : edit_threshold(text)
  \/ refresh_canvas
  \/ generate_grid_clear
  \/ generate_grid_plan
  \/ simulate_scan
  \/ \E r \in DOMAIN runs : run_begin(r)
  \/ \E r \in DOMAIN runs : run_step(r)

SpecScan == InitScan /\ [][NextScan]_vars

\* SpecScan with fair scheduling of the threads: a thread that has been
\* started is eventually run, and sleep() and update_heatmap() return
SpecScanFair ==
  /\ SpecScan
  /\ \A r \in 1 .. MaxRuns : WF_vars(run_begin(r)) /\ WF_vars(run_step(r))

(***************************************************************************)
(* SpecPlan: generate_grid as a function of the closed region and the      *)
(* threshold text.  It starts in the states the program is in once a       *)
(* triangle has been clicked and closed, or a rectangle has been given by  *)
(* two corners, with any text in the threshold entry; no thread exists     *)
(* and the view is the initial one.                                        *)
(***************************************************************************)
Points == (0 .. roi_size - 1) \X (0 .. roi_size - 1)

\* position of p in row-major order
Rank(p) == p[2] * roi_size + p[1]

\* the triangles, each in one order of its vertices (the ring, and with it
\* everything generate_grid computes, is the same for every rotation and
\* reversal of the vertex list), and the rectangles add_vertex can build
PlanRegions ==
  {t \in {<<a, b, c>> : a \in Points, b \in Points, c \in Points} :
      Rank(t[1]) <= Rank(t[2]) /\ Rank(t[2]) <= Rank(t[3])}
    \cup {RectVertices(p, q) : p \in Points, q \in Points}

InitPlan ==
  /\ vertices \in PlanRegions
  /\ rect_mode = (Len(vertices) = 4)
  /\ polygon_drawn = TRUE
  /\ rect_start = None
  /\ grid_points = <<>>
  /\ big_jumps = <<>>
  /\ thresh_entry \in ThreshTexts
  /\ heatmap_data = [c \in Cells |-> NaN]
  /\ gen_pc = "idle"
  /\ runs = <<>>
  /\ gen_thresh = 0
  /\ gen_rejected = FALSE
  /\ view = InitView

NextPlan ==
  \/ \E text \in ThreshTexts : edit_threshold(text)
  \/ generate_grid_clear
  \/ generate_grid_plan

SpecPlan == InitPlan /\ [][NextPlan]_vars

(***************************************************************************)
(* Vocabulary of the properties.                                           *)
(***************************************************************************)
Occurrences(s, x) == Cardinality({i \in 1 .. Len(s) : s[i] = x})

IsPermutation(s, t) ==
  /\ Len(s) = Len(t)
  /\ \A i \in 1 .. Len(t) : Occurrences(s, t[i]) = Occurrences(t, t[i])

\* s is t with some elements left out
RECURSIVE IsSubseq(_, _)
IsSubseq(s, t) ==
  IF s = <<>> THEN TRUE
  ELSE IF t = <<>> THEN FALSE
  ELSE IF Head(s) = Head(t) THEN IsSubseq(Tail(s), Tail(t))
  ELSE IsSubseq(s, Tail(t))

\* positions i of path whose step path[i] -> path[i+1] is longer than
\* thresh_um / galvo_step_um index units
JumpPositions(path, thresh_um) ==
  {i \in 1 .. Len(path) - 1 :
     Dist2(path[i], path[i + 1]) * galvo_step_um * galvo_step_um > thresh_um * thresh_um}

\* the JumpRecord list the analysis is specified to produce
ExpectedJumps(path, thresh_um) ==
  LET J == JumpPositions(path, thresh_um)
      Nth(k) == CHOOSE i \in J : Cardinality({j \in J : j < i}) = k - 1
  IN [k \in 1 .. Cardinality(J) |->
        <<path[Nth(k)], path[Nth(k) + 1],
          Dist2(path[Nth(k)], path[Nth(k) + 1]),
          Dist2(path[Nth(k)], path[Nth(k) + 1]) * galvo_step_um * galvo_step_um>>]

ThreshValues == {ReadThreshold(text) : text \in ThreshTexts}

Active(r) == runs[r].pc \in {"start", "iter"}

GenerateCompletes == gen_pc = "plan" /\ gen_pc' = "idle"

(***************************************************************************)
(* C1..C10                                                                 *)
(***************************************************************************)

\* C1 (as stated): a simulation run that ends has written every point of
\* the path its loop started on, once each and in path order, whatever was
\* interleaved with it.
C1_OneWritePerPoint ==
  [][\A r \in DOMAIN runs :
       (runs[r].pc = "iter" /\ runs'[r].pc = "done")
          => runs[r].written = runs[r].path]_vars

\* C2 (as stated): at most one simulation run is active at any time; a
\* simulate_scan issued while a run is Running starts no second run.
C2_SingleActiveRun ==
  Cardinality({r \in DOMAIN runs : Active(r)}) <= 1

\* C3: when generate_grid completes, grid_points is a permutation of the
\* candidate list the rasterizer produced for the region: every candidate
\* once, none dropped, none duplicated.
C3_PathIsPermutation ==
  [][GenerateCompletes =>
       \E candidates \in RasterOutcomes(vertices) :
          IsPermutation(grid_points', candidates)]_vars

C3_Witness ==
  /\ gen_pc = "idle"
  /\ ValidPolygon(vertices)
  /\ Len(grid_points) >= 5
  /\ IsPermutation(grid_points, Candidates(vertices))

\* C4: every step a -> b of the generated path is an axis-aligned step of
\* distance exactly 1, or else no point still unplaced when b was chosen was
\* an axis-aligned neighbour of a and none of them was nearer to a than b.
C4_PathValidity ==
  \A i \in 1 .. Len(grid_points) - 1 :
    LET a == grid_points[i]
        b == grid_points[i + 1]
        unplaced == {grid_points[j] : j \in i + 1 .. Len(grid_points)}
    IN \/ Dist2(a, b) = 1
       \/ \A q \in unplaced : Dist2(a, q) # 1 /\ Dist2(a, b) <= Dist2(a, q)

C4_Witness ==
  /\ gen_pc = "idle"
  /\ \E i \in 1 .. Len(grid_points) - 1 :
       /\ Dist2(grid_points[i], grid_points[i + 1]) > 1
       /\ i + 2 <= Len(grid_points)

\* C5 (as stated): whenever generate_grid is not executing, big_jumps is the
\* jump analysis of the current grid_points under the threshold text the
\* entry currently holds.
C5_JumpsTrackThreshold ==
  gen_pc = "idle" =>
    big_jumps = ExpectedJumps(grid_points, ReadThreshold(thresh_entry))

\* C6 (as stated): with fewer than 3 vertices in the region, a generate_grid
\* request leaves grid_points and big_jumps empty, and a simulate_scan issued
\* after it writes nothing.
C6_EmptyInput ==
  /\ (gen_rejected /\ Len(vertices) < 3) => (grid_points = <<>> /\ big_jumps = <<>>)
  /\ \A r \in DOMAIN runs : runs[r].small => runs[r].written = <<>>

\* C7: when generate_grid completes, big_jumps is exactly the list, in path
\* order, of the steps of grid_points longer than threshold / step, each with
\* its index distance and that distance times the step; nothing of the
\* earlier content of big_jumps is left in it.
C7_JumpsExact ==
  [][GenerateCompletes =>
       big_jumps' = ExpectedJumps(grid_points', ReadThreshold(thresh_entry'))]_vars

C7_Witness ==
  /\ gen_pc = "idle"
  /\ big_jumps # <<>>
  /\ Len(big_jumps) < Len(grid_points) - 1
  /\ big_jumps = ExpectedJumps(grid_points, ReadThreshold(thresh_entry))

\* the first three points of the path of C8
C8Path == << <<0, 0>>, <<1, 0>>, <<1, 1>> >>

\* thread r runs over a path that begins with C8Path and has made its
\* third write
C8Case(r) ==
  /\ runs[r].pc = "iter"
  /\ Len(runs[r].path) >= 3
  /\ SubSeq(runs[r].path, 1, 3) = C8Path
  /\ Len(runs[r].written) >= 3

C8Filled(r) ==
  /\ SubSeq(runs[r].written, 1, 3) = C8Path
  /\ \A k \in 1 .. 3 : heatmap_data[<<C8Path[k][2], C8Path[k][1]>>] # NaN

\* C8 (as stated): the cells (0,0), (1,0), (1,1) are filled in that order and
\* the write of (1,1) has the long delay whenever jump_threshold_index < 1.41.
C8_Original ==
  \A r \in DOMAIN runs :
    C8Case(r) =>
      /\ C8Filled(r)
      /\ (100 * runs[r].thresh < 141 * galvo_step_um => runs[r].delays[3] = "long")

\* C8 (amended): the cells (0,0), (1,0), (1,1) are filled in that order and
\* the write of (1,1) has the long delay exactly when jump_threshold_index < 1
\* (the step from (1,0) to (1,1) has length 1), the short delay otherwise.
C8_WriteOrderAndDelay ==
  \A r \in DOMAIN runs :
    C8Case(r) =>
      /\ C8Filled(r)
      /\ runs[r].delays[3] =
           (IF runs[r].thresh < galvo_step_um THEN "long" ELSE "short")

C8_Witness ==
  \E r \in DOMAIN runs :
    /\ C8Case(r)
    /\ runs[r].thresh = galvo_step_um
    /\ runs[r].delays[3] = "short"

\* thread r iterates the list generate_grid last produced, which has not
\* been cleared since, with the threshold that generation used
C9Case(r) ==
  /\ runs[r].pc = "iter"
  /\ runs[r].cur
  /\ gen_pc = "idle"
  /\ grid_points # <<>>
  /\ runs[r].thresh = gen_thresh

Recorded(a, b) ==
  \E j \in 1 .. Len(big_jumps) : big_jumps[j][1] = a /\ big_jumps[j][2] = b

\* C9: in a run that uses the threshold of the generation that produced its
\* path, the first write has no delay and every later write has the long
\* delay exactly when its step is recorded in big_jumps, the short one
\* otherwise.
C9_DelaysMatchJumps ==
  \A r \in DOMAIN runs :
    C9Case(r) =>
      \A k \in 1 .. Len(runs[r].written) :
        runs[r].delays[k] =
          (IF k = 1 THEN "none"
           ELSE IF Recorded(runs[r].written[k - 1], runs[r].written[k])
                  THEN "long" ELSE "short")

C9_Witness ==
  \E r \in DOMAIN runs :
    /\ C9Case(r)
    /\ \E k \in 1 .. Len(runs[r].delays) : runs[r].delays[k] = "long"
    /\ \E k \in 1 .. Len(runs[r].delays) : runs[r].delays[k] = "short"

\* C10: for the generated path, the records under a larger threshold are a
\* sub-sequence of the records under a smaller one (so never more of them);
\* big_jumps is the list under the threshold the generation read.
C10_ThresholdMonotone ==
  (gen_pc = "idle" /\ grid_points # <<>>) =>
    LET under == [t \in ThreshValues |-> AnalyzeJumps(grid_points, t, <<>>)]
    IN /\ \A t \in ThreshValues :
            /\ t >= gen_thresh => IsSubseq(under[t], big_jumps)
            /\ t <= gen_thresh => IsSubseq(big_jumps, under[t])
       /\ \A t1, t2 \in ThreshValues :
            t1 <= t2 =>
              /\ IsSubseq(under[t2], under[t1])
              /\ Len(under[t2]) <= Len(under[t1])

C10_Witness ==
  /\ gen_pc = "idle"
  /\ big_jumps # <<>>
  /\ \E t \in ThreshValues :
       /\ t > gen_thresh
       /\ Len(AnalyzeJumps(grid_points, t, <<>>)) < Len(big_jumps)
       /\ AnalyzeJumps(grid_points, t, <<>>) # <<>>

(***************************************************************************)
(* C11..C20                                                                *)
(***************************************************************************)

\* p comes before q in row-major order (smaller iy, then smaller ix)
RowBefore(p, q) == p[2] < q[2] \/ (p[2] = q[2] /\ p[1] < q[1])

RowMajorSorted(s) == \A i \in 1 .. Len(s) - 1 : RowBefore(s[i], s[i + 1])

\* the pool of unplaced candidates is in row-major order now and after
\* every further turn of the planner's loop
RECURSIVE PoolStaysSorted(_, _)
PoolStaysSorted(current, pool) ==
  /\ RowMajorSorted(pool)
  /\ pool # <<>> =>
       LET next_pt == NextPoint(current, pool)
       IN PoolStaysSorted(next_pt, ListRemove(pool, next_pt))

\* the neighbours of c in the order (cx,cy-1), (cx-1,cy), (cx+1,cy), (cx,cy+1)
AxisPriority(c) ==
  << <<c[1], c[2] - 1>>, <<c[1] - 1, c[2]>>, <<c[1] + 1, c[2]>>, <<c[1], c[2] + 1>> >>

\* the points of the path after position i
Unplaced(path, i) == {path[j] : j \in i + 1 .. Len(path)}

\* path[i+1] is the point the tie-break rule names for the step from path[i]
TieBreakStep(path, i) ==
  LET c == path[i]
      n == path[i + 1]
      U == Unplaced(path, i)
      P == AxisPriority(c)
  IN IF \E k \in 1 .. 4 : P[k] \in U
       THEN \E k \in 1 .. 4 : n = P[k] /\ \A j \in 1 .. k - 1 : P[j] \notin U
       ELSE \A q \in U :
              /\ Dist2(c, n) <= Dist2(c, q)
              /\ (Dist2(c, q) = Dist2(c, n) /\ q # n) => RowBefore(n, q)

\* C11: the path starts at the row-major first candidate, the pool of
\* unplaced candidates is in row-major order after every removal, an
\* axis-aligned step goes to the first unplaced neighbour in the order
\* (cx,cy-1), (cx-1,cy), (cx+1,cy), (cx,cy+1), and a fallback step goes to
\* the row-major first of the nearest unplaced points.
C11_RowMajorTieBreak ==
  (gen_pc = "idle" /\ grid_points # <<>>) =>
    /\ \A i \in 2 .. Len(grid_points) : RowBefore(grid_points[1], grid_points[i])
    /\ \A i \in 1 .. Len(grid_points) - 1 : TieBreakStep(grid_points, i)
    /\ \E c \in RasterOutcomes(vertices) :
         /\ c # <<>>
         /\ PlanPath(c) = grid_points
         /\ RowMajorSorted(c)
         /\ PoolStaysSorted(Head(c), Tail(c))

\* a generated path with a step that had two unplaced axis neighbours to
\* choose from and a fallback step that had two nearest points to choose from
C11_Witness ==
  /\ gen_pc = "idle"
  /\ \E i \in 1 .. Len(grid_points) - 1 :
       Cardinality({q \in Unplaced(grid_points, i) :
                       Dist2(grid_points[i], q) = 1}) >= 2
  /\ \E i \in 1 .. Len(grid_points) - 1 :
       /\ Dist2(grid_points[i], grid_points[i + 1]) > 1
       /\ Cardinality({q \in Unplaced(grid_points, i) :
                          Dist2(grid_points[i], q)
                            = Dist2(grid_points[i], grid_points[i + 1])}) >= 2

\* the index point p addresses a cell of the roi_size x roi_size array
InRoi(p) == 0 <= p[1] /\ p[1] < roi_size /\ 0 <= p[2] /\ p[2] < roi_size

\* C12: every vertex of the region and every point of grid_points lies in
\* 0 <= ix, iy < roi_size, and so does every point a simulation run has
\* written to the accumulator.
C12_InsideRoi ==
  /\ \A i \in 1 .. Len(vertices) : InRoi(vertices[i])
  /\ \A i \in 1 .. Len(grid_points) : InRoi(grid_points[i])
  /\ \A r \in DOMAIN runs :
       \A k \in 1 .. Len(runs[r].written) : InRoi(runs[r].written[k])

\* a region entered under a zoomed view has been rasterized and a run has
\* written points of its path
C12_Witness ==
  /\ view.zoom > 0
  /\ polygon_drawn
  /\ Len(grid_points) >= 4
  /\ \E i \in 1 .. Len(vertices) : vertices[i][1] = 2
  /\ \E r \in DOMAIN runs :
       /\ runs[r].pc = "iter"
       /\ Len(runs[r].written) >= 4
       /\ \E k \in 1 .. Len(runs[r].written) : runs[r].written[k][1] = 2

\* thread r makes a write in this step: the cell of the point it appends to
\* its writes gets a value, every other cell is left as it was
RunWrites(r) ==
  /\ runs[r].pc = "iter"
  /\ Len(runs'[r].written) = Len(runs[r].written) + 1
  /\ LET pt == runs'[r].written[Len(runs'[r].written)]
     IN /\ heatmap_data'[<<pt[2], pt[1]>>] # NaN
        /\ \A c \in Cells : c # <<pt[2], pt[1]>> => heatmap_data'[c] = heatmap_data[c]

C14_ResetFrame ==
  [][refresh_canvas =>
       /\ vertices' = <<>>
       /\ grid_points' = <<>>
       /\ big_jumps' = <<>>
       /\ polygon_drawn' = FALSE
       /\ rect_start' = None
       /\ heatmap_data' = heatmap_data
       /\ rect_mode' = rect_mode
       /\ thresh_entry' = thresh_entry]_vars

\* the state after a reset that cut a running scan short in rectangle mode,
\* with an edited threshold text and values in the accumulator
C14_Witness ==
  /\ vertices = <<>> /\ grid_points = <<>> /\ big_jumps = <<>>
  /\ ~polygon_drawn /\ rect_start = None
  /\ rect_mode
  /\ thresh_entry # "0.4"
  /\ \E c \in Cells : heatmap_data[c] # NaN
  /\ \E r \in DOMAIN runs :
       /\ runs[r].pc = "iter" /\ runs[r].cur
       /\ runs[r].written # <<>>
       /\ Len(runs[r].written) < Len(runs[r].path)

\* the bounding box of the vertex list has no width or no height
ZeroAreaBBox(V) ==
  SeqMin(V, 1) = SeqMax(V, 1) \/ SeqMin(V, 2) = SeqMax(V, 2)

\* C15 (as stated): when the region's bounding box has zero area,
\* generate_grid ends with grid_points and big_jumps empty.
C15_DegenerateEmpty ==
  [][(GenerateCompletes /\ ZeroAreaBBox(vertices))
        => (grid_points' = <<>> /\ big_jumps' = <<>>)]_vars

\* the vertex list is an axis-aligned rectangle with width and height
IsProperRectangle(V) ==
  /\ Len(V) = 4
  /\ V = RectVertices(V[1], V[3])
  /\ ~ZeroAreaBBox(V)

\* the integer points of the closed bounding box of V
ClosedBox(V) ==
  (SeqMin(V, 1) .. SeqMax(V, 1)) \X (SeqMin(V, 2) .. SeqMax(V, 2))

\* C16: for an axis-aligned rectangle with width and height, generate_grid
\* places every integer point of the closed rectangle, edges and corners
\* included, on the path, (w + 1) * (h + 1) points in all.
C16_RectangleCovered ==
  [][(GenerateCompletes /\ IsProperRectangle(vertices)) =>
       /\ \A p \in ClosedBox(vertices) :
            \E i \in 1 .. Len(grid_points') : grid_points'[i] = p
       /\ Len(grid_points') = Cardinality(ClosedBox(vertices))]_vars

\* the square over the whole ROI has been rasterized with all its points
C16_Witness ==
  /\ gen_pc = "idle"
  /\ IsProperRectangle(vertices)
  /\ ClosedBox(vertices) = Points
  /\ Len(grid_points) = roi_size * roi_size

\* C17: in rectangle mode with no polygon drawn, an accepted click with no
\* pending corner only stores its point (x1,y1) as the pending corner, and
\* the next accepted click, at (x2,y2), sets the region to exactly
\* [(x1,y1), (x2,y1), (x2,y2), (x1,y2)], marks the polygon drawn and clears
\* the pending corner.
C17_RectangleVertices ==
  [][\A c \in Clicks :
       (add_vertex(c[1], c[2]) /\ rect_mode /\ ~polygon_drawn
          /\ inside_roi(c[1], c[2])) =>
         LET p == px_to_idx(c[1], c[2])
         IN IF rect_start = None
              THEN /\ rect_start' = p
                   /\ vertices' = vertices /\ vertices = <<>>
                   /\ polygon_drawn' = FALSE
              ELSE /\ vertices' = <<rect_start, <<p[1], rect_start[2]>>,
                                    p, <<rect_start[1], p[2]>>>>
                   /\ polygon_drawn' = TRUE
                   /\ rect_start' = None]_vars

\* a rectangle with width and height whose second corner was clicked under
\* a zoomed view, after an earlier region had been drawn and reset
C17_Witness ==
  /\ rect_mode /\ polygon_drawn /\ rect_start = None
  /\ Len(vertices) = 4
  /\ vertices[1][1] < vertices[3][1] /\ vertices[1][2] < vertices[3][2]
  /\ vertices[2] = <<vertices[3][1], vertices[1][2]>>
  /\ vertices[4] = <<vertices[1][1], vertices[3][2]>>
  /\ vertices[2] # vertices[4]
  /\ view.zoom > 0
  /\ \E c \in Cells : heatmap_data[c] # NaN

\* C18: at every moment the points a run has written so far are a prefix,
\* in order, of the list contents its loop began on: an interleaved
\* generate_grid or refresh_canvas can end the run early, but the run never
\* skips, repeats or reorders points and never writes a point of a path
\* generated after it began.
C18_WrittenIsPrefix ==
  \A r \in DOMAIN runs :
    /\ Len(runs[r].written) <= Len(runs[r].path)
    /\ runs[r].written = SubSeq(runs[r].path, 1, Len(runs[r].written))

\* a run that was cut short while another, different path has been
\* generated since
C18_Witness ==
  /\ gen_pc = "idle"
  /\ \E r \in DOMAIN runs :
       /\ runs[r].pc = "iter"
       /\ ~runs[r].cur
       /\ runs[r].written # <<>>
       /\ Len(runs[r].written) < Len(runs[r].path)
       /\ Len(grid_points) > Len(runs[r].written)
       /\ grid_points # runs[r].path

\* C19: under fair scheduling of the threads, every simulation run that has
\* been started eventually ends, whatever generate_grid, refresh_canvas and
\* simulate_scan steps are interleaved, and it never makes more writes than
\* the list its loop began on has points.
C19_RunsComplete ==
  /\ \A r \in 1 .. MaxRuns : Active(r) ~> (runs[r].pc = "done")
  /\ [](\A r \in 1 .. MaxRuns : Len(runs[r].written) <= Len(runs[r].path))

\* two runs are under way at once, one of them on a list that has been
\* emptied, the other with writes still to make
C19_Witness ==
  /\ \A r \in 1 .. MaxRuns : runs[r].pc = "iter"
  /\ \E r \in 1 .. MaxRuns : ~runs[r].cur /\ Len(runs[r].written) < Len(runs[r].path)
  /\ \E r \in 1 .. MaxRuns : runs[r].cur /\ runs[r].idx <= Len(grid_points)

\* C20: whenever polygon_drawn is true the region has at least 3 vertices,
\* so generate_grid, which goes on to rasterize only when polygon_drawn is
\* true, never rasterizes a region of fewer than 3 vertices.
C20_DrawnHasThreeVertices ==
  /\ polygon_drawn => Len(vertices) >= 3
  /\ gen_pc = "plan" => Len(vertices) >= 3

\* generate_grid is rasterizing a freehand triangle that was closed after
\* rectangle mode had been switched on and off again
C20_Witness ==
  /\ gen_pc = "plan"
  /\ ~rect_mode
  /\ Len(vertices) = 3
  /\ \E c \in Cells : heatmap_data[c] # NaN

====
